---------------------------- MODULE Spec2Model ----------------------------
(***************************************************************************)
(* The Orbital window compositor (crates/orbital/main.rs): the             *)
(* OrbitalScheme state, the three phases of event_loop and the four scheme *)
(* operations open / read / write / close.                                 *)
(*                                                                         *)
(* A path is a sequence of one-character strings, so that split, skip,     *)
(* parse and the rejoining of the title are computed character by          *)
(* character as open computes them.                                        *)
(***************************************************************************)
EXTENDS Integers, Sequences, FiniteSets, TLC

VARIABLES
    \* ---- OrbitalScheme (main.rs 34-48) ----
    display,        \* [width, height] of the Display handed to new()
    cursor_x, cursor_y,
    dragging, drag_x, drag_y,
    next_id, next_x, next_y,
    order,          \* VecDeque<usize>, front first
    windows,        \* BTreeMap<usize, Window>
    redraw,
    \* ---- position of event_loop and build mode ----
    pc,             \* "events" | "packets" | "composite" | "yield"
    panicked,       \* the process died of an arithmetic-overflow panic (a
                    \* build with overflow checks; one without them wraps)
    \* ---- what an outside observer sees ----
    last,           \* the packet: the request last served in this Phase B
                    \* and the response written for it
    frame,          \* display calls of the latest Phase C, in call order
    \* ---- history (never read by the program) ----
    n_open,         \* opens served so far   (bounded by MaxOpens)
    n_input,        \* input events handled  (bounded by MaxInput)
    n_write,        \* writes that reached a window (bounded by MaxWrites)
    returned,       \* handles returned by open, in call order
    live,           \* handles returned by open and not closed since
    paths,          \* for each handle of live, the path of the open that returned it
    recency,        \* open windows, most recently created-or-clicked first
    placed,         \* positions given to auto-placed windows, in call order
    quiet,          \* no input, write, open or close since Phase C last ended
    composed,       \* Phase C has completed at least once
    scn,            \* progress along the two scenario scripts
    grabbed         \* while dragging: the handle of the window whose title
                    \* bar was pressed to start the drag; 0 otherwise

vars == << display, cursor_x, cursor_y, dragging, drag_x, drag_y, next_id,
           next_x, next_y, order, windows, redraw, pc,
           panicked, last, frame, n_open, n_input, n_write, returned, live, paths, recency,
           placed, quiet, composed, scn, grabbed >>

(***************************************************************************)
(* Bounds of the model.                                                    *)
(***************************************************************************)
MaxOpens == 2
MaxInput == 2
MaxWrites == 1

(***************************************************************************)
(* Program constants.                                                      *)
(***************************************************************************)
\* isize::MAX on the 32-bit x86 target (kernel/arch/tss.rs selects x86 or
\* x86_64; the 32-bit width is the one whose overflow is within int range).
ISIZE_MAX == 2147483647
ISIZE_MIN == (-ISIZE_MAX) - 1
I32_MAX == 2147483647
FIRST_ID == 1
FIRST_POS == 20
STEP == 20


Min(a, b) == IF a <= b THEN a ELSE b

(***************************************************************************)
(* open's path handling (main.rs 169-180).                                 *)
(***************************************************************************)
\* str::split("/"): the fields between the delimiters; "" has one empty field.
RECURSIVE Split(_)
Split(s) ==
    IF \A i \in 1..Len(s) : s[i] # "/"
    THEN << s >>
    ELSE LET k == CHOOSE i \in 1..Len(s) :
                      s[i] = "/" /\ \A j \in 1..(i - 1) : s[j] # "/"
         IN  << SubSeq(s, 1, k - 1) >> \o Split(SubSeq(s, k + 1, Len(s)))

\* Iterator::skip(n)
Skip(parts, n) == SubSeq(parts, n + 1, Len(parts))

\* parts.next().unwrap_or("") for the i-th call of next()
Field(parts, i) == IF i <= Len(parts) THEN parts[i] ELSE << >>

IsDigit(c) == c \in {"0", "1", "2", "3", "4", "5", "6", "7", "8", "9"}

DigitVal(c) ==
    CASE c = "0" -> 0 [] c = "1" -> 1 [] c = "2" -> 2 [] c = "3" -> 3
      [] c = "4" -> 4 [] c = "5" -> 5 [] c = "6" -> 6 [] c = "7" -> 7
      [] c = "8" -> 8 [] c = "9" -> 9

\* The digit loop of i32::from_str: acc * 10 +/- digit with checked
\* arithmetic; any non-digit or any overflow is an error.
RECURSIVE ParseDigits(_, _, _)
ParseDigits(s, acc, neg) ==
    IF s = << >> THEN [ok |-> TRUE, val |-> acc]
    ELSE IF ~IsDigit(Head(s)) THEN [ok |-> FALSE, val |-> 0]
    ELSE LET d == DigitVal(Head(s))
         IN  IF neg
             THEN IF acc < ((-I32_MAX) - 1 + d + 9) \div 10
                  THEN [ok |-> FALSE, val |-> 0]
                  ELSE ParseDigits(Tail(s), acc * 10 - d, neg)
             ELSE IF acc > (I32_MAX - d) \div 10
                  THEN [ok |-> FALSE, val |-> 0]
                  ELSE ParseDigits(Tail(s), acc * 10 + d, neg)

\* str::parse::<i32>(): an optional sign, then at least one decimal digit.
ParseI32(s) ==
    IF s = << >> THEN [ok |-> FALSE, val |-> 0]
    ELSE IF Head(s) \in {"-", "+"}
         THEN IF Tail(s) = << >> THEN [ok |-> FALSE, val |-> 0]
              ELSE ParseDigits(Tail(s), 0, Head(s) = "-")
         ELSE ParseDigits(s, 0, FALSE)

\* .parse::<i32>().unwrap_or(0)
ParseOr0(s) == IF ParseI32(s).ok THEN ParseI32(s).val ELSE 0

\* Mutant of PushParts: the fields are joined without the delimiter.
RECURSIVE PushPartsBare(_, _)
PushPartsBare(title, rest) ==
    IF rest = << >> THEN title
    ELSE PushPartsBare(title \o Head(rest), Tail(rest))

\* The title: the next field, then every further field behind a '/'.
RECURSIVE PushParts(_, _)
PushParts(title, rest) ==
    IF rest = << >> THEN title
    ELSE PushParts(title \o << "/" >> \o Head(rest), Tail(rest))

\* The mutant of PathParts that consumes the fields from the first one.
PathPartsNoSkip(path) == Split(path)

\* let mut parts = path.split("/").skip(1);
PathParts(path) == Skip(Split(path), 1)

\* The five values open reads from its path.
OpenArgs(path) ==
    LET parts == PathParts(path)
    IN  [ x      |-> ParseOr0(Field(parts, 1)),
          y      |-> ParseOr0(Field(parts, 2)),
          width  |-> ParseOr0(Field(parts, 3)),
          height |-> ParseOr0(Field(parts, 4)),
          title  |-> PushParts(Field(parts, 5), Skip(parts, 5)) ]

(***************************************************************************)
(* Events (kernel/common/event.rs) and Window (crates/orbital/window.rs):  *)
(* neither file is among the sources; both follow the design document.     *)
(***************************************************************************)
EVENT_KEY == "k"
EVENT_MOUSE == "m"
EVENT_QUIT == "q"

MouseEvent(a, b, c) == [code |-> EVENT_MOUSE, a |-> a, b |-> b, c |-> c]
KeyEvent(ch) == [code |-> EVENT_KEY, a |-> ch, b |-> 0, c |-> 1]
\* QuitEvent.to_event()
QuitEventToEvent == [code |-> EVENT_QUIT, a |-> 0, b |-> 0, c |-> 0]

\* The title bar is a strip of TITLE_HEIGHT rows above the content; the exit
\* sub-region is its rightmost EXIT_WIDTH columns.
TITLE_HEIGHT == 18
EXIT_WIDTH == 10

WindowNew(x, y, width, height, title) ==
    [ x |-> x, y |-> y, width |-> width, height |-> height, title |-> title,
      events |-> << >>, data |-> << >> ]

Contains(w, px, py) ==
    /\ w.x <= px /\ px < w.x + w.width
    /\ w.y <= py /\ py < w.y + w.height

TitleContains(w, px, py) ==
    /\ w.x <= px /\ px < w.x + w.width
    /\ w.y - TITLE_HEIGHT <= py /\ py < w.y

ExitContains(w, px, py) ==
    /\ w.x + w.width - EXIT_WIDTH <= px /\ px < w.x + w.width
    /\ w.y - TITLE_HEIGHT <= py /\ py < w.y

\* window.event(e): append to the queue
WindowEvent(w, e) == [w EXCEPT !.events = Append(@, e)]

\* window.read(buf): pops the events that fit a buffer with room for cap
\* events; the count is in events.
WindowReadCount(w, cap) == Min(cap, Len(w.events))
WindowRead(w, cap) ==
    [w EXCEPT !.events = SubSeq(@, WindowReadCount(w, cap) + 1, Len(@))]

\* window.write(buf): copies buf over the content from offset 0, up to the
\* content's capacity of width * height pixels; data is the written prefix.
WindowWriteCount(w, buf) == Min(Len(buf), w.width * w.height)
WindowWrite(w, buf) ==
    LET n == WindowWriteCount(w, buf)
    IN  [w EXCEPT !.data = SubSeq(buf, 1, n) \o SubSeq(@, n + 1, Len(@))]

(***************************************************************************)
(* Inputs of the model.                                                    *)
(***************************************************************************)
\* The Display handed to OrbitalScheme::new: the scenario's 800x600 and a
\* small one on which the placement cascade wraps within MaxOpens opens.
Displays ==
    { [width |-> 800, height |-> 600], [width |-> 80, height |-> 60] }

P_lit   == << "-","1","/","-","1","/","1","0","0","/","5","0","/","T","e","s","t" >>
P_lead  == << "/" >> \o P_lit
P_empty == << >>
\* "/x/-5/60/40/a/b": an unparsable x, one negative coordinate, a title
\* that holds the delimiter
P_mix   == << "/","x","/","-","5","/","6","0","/","4","0","/","a","/","b" >>
Paths == { P_lit, P_lead, P_empty, P_mix }

\* Pointer positions: inside the first cascaded window only, in the overlap
\* of the first two, on the second one's title bar over the first one's
\* content, on the second one's exit region, and on the first one's title
\* bar.
Points == { << 25, 25 >>, << 45, 45 >>, << 45, 30 >>, << 135, 30 >>, << 25, 10 >> }
Buttons == { 0, 1 }
Keys == { 65 }
\* Handles a client may name: those open can return within the bounds, and
\* isize::MAX (open returns it only when the counter starts next to it).
HandleArgs == (1..MaxOpens) \cup { ISIZE_MAX }
ReadCaps == { 1 }
WriteBufs == { << 7 >> }

(***************************************************************************)
(* Helpers of the scheme operations and of the pointer scan.               *)
(***************************************************************************)
\* VecDeque::push_front
PushFront(ord, id) == << id >> \o ord

\* VecDeque::remove(i), i counted from 0: the sequence without that element
RemoveAt(ord, i) == SubSeq(ord, 1, i) \o SubSeq(ord, i + 2, Len(ord))

\* isize += 1 in a build without overflow checks
WrappingInc(n) == IF n = ISIZE_MAX THEN ISIZE_MIN ELSE n + 1

\* Mutant of NextId: the counter goes back to the first handle.
NextIdRestarts(n) == FIRST_ID

\* self.next_id += 1; if self.next_id < 0 { self.next_id = 1; }
NextId(n) == IF WrappingInc(n) < 0 THEN FIRST_ID ELSE WrappingInc(n)

\* Mutant of Advance: the counter restarts only beyond the edge.
AdvanceBeyond(next, limit) ==
    IF next + STEP + STEP > limit THEN FIRST_POS ELSE next + STEP

\* self.next_x += 20; if self.next_x + 20 >= self.display.width() { .. = 20 }
Advance(next, limit) ==
    IF next + STEP + STEP >= limit THEN FIRST_POS ELSE next + STEP

\* self.order.retain(|&e| e != id)
Retain(ord, id) == SelectSeq(ord, LAMBDA e : e # id)

\* BTreeMap::insert and BTreeMap::remove
MapInsert(wins, id, w) ==
    [h \in DOMAIN wins \cup {id} |-> IF h = id THEN w ELSE wins[h]]
MapRemove(wins, id) == [h \in DOMAIN wins \ {id} |-> wins[h]]

\* The keyboard target delivered to the window at the back of ord.
BackWindow(ord, wins) ==
    IF ord # << >> /\ ord[Len(ord)] \in DOMAIN wins THEN { ord[Len(ord)] } ELSE { }

\* if let Some(id) = self.order.front() {
\*     if let Some(mut window) = self.windows.get_mut(&id) { .. } }
\* (73-74 and 85-86): the handle whose window the body works on, if any
FrontWindow(ord, wins) ==
    IF ord # << >> /\ Head(ord) \in DOMAIN wins THEN { Head(ord) } ELSE { }

\* The focused handle changing places with the front one.
PromoteSwap(ord, focus) ==
    IF focus > 0 /\ focus < Len(ord)
    THEN [ k \in 1..Len(ord) |->
             IF k = 1 THEN ord[focus + 1]
             ELSE IF k = focus + 1 THEN ord[1]
             ELSE ord[k] ]
    ELSE ord

\* if focus > 0 { if let Some(id) = order.remove(focus) { push_front(id) } }
Promote(ord, focus) ==
    IF focus > 0 /\ focus < Len(ord)
    THEN PushFront(RemoveAt(ord, focus), ord[focus + 1])
    ELSE ord

\* Mutant of FirstHit: the scan runs from the back of ord.
LastHit(ord, wins, px, py) ==
    LET hits == { k \in 1..Len(ord) :
                    /\ ord[k] \in DOMAIN wins
                    /\ \/ Contains(wins[ord[k]], px, py)
                       \/ TitleContains(wins[ord[k]], px, py) }
    IN  IF hits = {} THEN 0
        ELSE CHOOSE k \in hits : \A j \in hits : k >= j

\* The scan of main.rs 103-129: the position in ord (from 1) of the first
\* handle whose window is hit on its content or its title bar; 0 if none.
FirstHit(ord, wins, px, py) ==
    LET hits == { k \in 1..Len(ord) :
                    /\ ord[k] \in DOMAIN wins
                    /\ \/ Contains(wins[ord[k]], px, py)
                       \/ TitleContains(wins[ord[k]], px, py) }
    IN  IF hits = {} THEN 0
        ELSE CHOOSE k \in hits : \A j \in hits : k <= j

\* The hit window's treatment with a press on the exit sub-region also
\* starting a drag.
HitEffectExitDrags(w, k, a, b, c) ==
    IF Contains(w, a, b)
    THEN [ win   |-> WindowEvent(w, MouseEvent(a - w.x, b - w.y, c)),
           focus |-> IF c > 0 THEN k - 1 ELSE 0,
           drag  |-> FALSE ]
    ELSE IF c > 0
         THEN [ win   |-> IF ExitContains(w, a, b)
                          THEN WindowEvent(w, QuitEventToEvent) ELSE w,
                focus |-> k - 1, drag |-> TRUE ]
         ELSE [ win |-> w, focus |-> 0, drag |-> FALSE ]

\* What the not-dragging branch does with the window it hits (104-126):
\* the window afterwards, focus (from 0), and whether a drag starts.
HitEffect(w, k, a, b, c) ==
    IF Contains(w, a, b)
    THEN [ win   |-> WindowEvent(w, MouseEvent(a - w.x, b - w.y, c)),
           focus |-> IF c > 0 THEN k - 1 ELSE 0,
           drag  |-> FALSE ]
    ELSE IF c > 0
         THEN IF ExitContains(w, a, b)
              THEN [ win |-> WindowEvent(w, QuitEventToEvent),
                     focus |-> k - 1, drag |-> FALSE ]
              ELSE [ win |-> w, focus |-> k - 1, drag |-> TRUE ]
         ELSE [ win |-> w, focus |-> 0, drag |-> FALSE ]

\* The window loop running from the front of ord.
DrawCallsFrontFirst(ord, wins) ==
    SelectSeq([ k \in 1..Len(ord) |->
                  [ call |-> "draw", id |-> ord[k], top |-> (k = 1) ] ],
              LAMBDA d : d.id \in DOMAIN wins)

\* Phase C's window loop (149-155): one draw per handle of ord that has a
\* window, from the back, is_topmost for the handle at index 0.
DrawCalls(ord, wins) ==
    LET n == Len(ord)
        all == [ k \in 1..n |->
                   [ call |-> "draw", id |-> ord[n + 1 - k], top |-> (n - k = 0) ] ]
    IN  SelectSeq(all, LAMBDA d : d.id \in DOMAIN wins)

\* Phase C without the present at its end.
FrameCallsNoFlip(ord, wins) ==
    << [call |-> "set", id |-> 0, top |-> FALSE] >>
    \o SelectSeq([ k \in 1..Len(ord) |->
                     [ call |-> "draw", id |-> ord[Len(ord) + 1 - k],
                       top |-> (k = Len(ord)) ] ],
                 LAMBDA d : d.id \in DOMAIN wins)
    \o << [call |-> "blend", id |-> 0, top |-> FALSE] >>

\* Phase C's display calls (147-158): fill, window draws, cursor blend, flip
FrameCalls(ord, wins) ==
    << [call |-> "set", id |-> 0, top |-> FALSE] >>
    \o DrawCalls(ord, wins)
    \o << [call |-> "blend", id |-> 0, top |-> FALSE],
          [call |-> "flip", id |-> 0, top |-> FALSE] >>

\* A failed operation for which no response is written.
ErrUnanswered(op, id, e) ==
    [op |-> "none", id |-> 0, ok |-> TRUE, val |-> 0, err |-> "none"]

\* Responses
Ok(op, id, val) ==
    [op |-> op, id |-> id, ok |-> TRUE, val |-> val, err |-> "none"]
Err(op, id, e) ==
    [op |-> op, id |-> id, ok |-> FALSE, val |-> 0, err |-> e]
\* Packet::default()
NoRequest == [op |-> "none", id |-> 0, ok |-> TRUE, val |-> 0, err |-> "none"]

(***************************************************************************)
(* History helpers.                                                        *)
(***************************************************************************)
\* The window a pointer at (px, py) is over: the one nearest the front of
\* ord among those whose content or title bar holds the point; 0 if none.
TopmostUnder(ord, wins, px, py) ==
    LET under == { h \in DOMAIN wins :
                     Contains(wins[h], px, py) \/ TitleContains(wins[h], px, py) }
        pos(h) == CHOOSE k \in 1..Len(ord) :
                     ord[k] = h /\ \A j \in 1..(k - 1) : ord[j] # h
    IN  IF under = {} \/ \E h \in under : \A k \in 1..Len(ord) : ord[k] # h
        THEN 0
        ELSE CHOOSE h \in under : \A g \in under : pos(h) <= pos(g)

Scenario800 == display = [width |-> 800, height |-> 600]

\* Progress along a scenario script: two opens of the script's path, a
\* button-down at (45,45), a button-down at (25,25); -1 once anything else
\* has been served.
ScnOpen(n, script, path) ==
    IF n \in {0, 1} /\ path = script /\ Scenario800 THEN n + 1 ELSE -1
ScnMouse(n, a, b, c) ==
    IF n = 2 /\ a = 45 /\ b = 45 /\ c > 0 THEN 3
    ELSE IF n = 3 /\ a = 25 /\ b = 25 /\ c > 0 THEN 4
    ELSE -1
ScnOff == [lit |-> -1, lead |-> -1]

(***************************************************************************)
(* The state after OrbitalScheme::new (main.rs 51-67), at the top of       *)
(* event_loop.                                                             *)
(***************************************************************************)
Init ==
    /\ display \in Displays
    /\ cursor_x = 0 /\ cursor_y = 0
    /\ dragging = FALSE /\ drag_x = 0 /\ drag_y = 0
    /\ next_id = FIRST_ID
    /\ next_x = FIRST_POS /\ next_y = FIRST_POS
    /\ order = << >>
    /\ windows = << >>
    /\ redraw = TRUE
    /\ pc = "events"
    /\ panicked = FALSE
    /\ last = NoRequest
    /\ frame = << >>
    /\ n_open = 0 /\ n_input = 0 /\ n_write = 0
    /\ returned = << >>
    /\ live = {}
    /\ paths = << >>
    /\ recency = << >>
    /\ placed = << >>
    /\ quiet = FALSE
    /\ composed = FALSE
    /\ scn = [lit |-> 0, lead |-> 0]
    /\ grabbed = 0

schemeVars == << next_id, next_x, next_y, order, windows >>
inputVars  == << cursor_x, cursor_y, dragging, drag_x, drag_y >>
openHist   == << n_open, n_write, returned, placed >>

(***************************************************************************)
(* Phase A: one event of display.events() (main.rs 71-137).                *)
(***************************************************************************)
\* event.code == EVENT_KEY (72-77)
HandleKey(ch) ==
    /\ pc = "events" /\ ~panicked /\ n_input < MaxInput
    /\ windows' =
         [ h \in DOMAIN windows |->
             IF h \in FrontWindow(order, windows)
             THEN WindowEvent(windows[h], KeyEvent(ch))
             ELSE windows[h] ]
    /\ n_input' = n_input + 1
    /\ quiet' = FALSE
    /\ scn' = ScnOff
    /\ UNCHANGED << display, inputVars, grabbed, next_id, next_x, next_y, order, redraw,
                    pc, panicked, last, frame, openHist, live, paths, recency,
                    composed >>

\* The drag branch with the anchor left where the drag started.
DragStepKeepsAnchor(a, b, c) ==
    IF c > 0 /\ order # << >> /\ Head(order) \in DOMAIN windows
    THEN /\ windows' = [windows EXCEPT ![Head(order)] =
                          [@ EXCEPT !.x = @ + (a - drag_x),
                                    !.y = @ + (b - drag_y)]]
         /\ UNCHANGED << dragging, drag_x, drag_y >>
    ELSE /\ dragging' = FALSE
         /\ UNCHANGED << windows, drag_x, drag_y >>

\* event.code == EVENT_MOUSE while dragging (83-99)
DragStep(a, b, c) ==
    IF c > 0 /\ FrontWindow(order, windows) # { }
    THEN /\ windows' =
              [ h \in DOMAIN windows |->
                  IF h \in FrontWindow(order, windows)
                  THEN [windows[h] EXCEPT !.x = @ + (a - drag_x),
                                          !.y = @ + (b - drag_y)]
                  ELSE windows[h] ]
         /\ drag_x' = a /\ drag_y' = b
         /\ dragging' = dragging
    ELSE /\ dragging' = FALSE
         /\ UNCHANGED << windows, drag_x, drag_y >>

\* event.code == EVENT_MOUSE while not dragging (100-135)
ScanStep(a, b, c) ==
    LET k == FirstHit(order, windows, a, b)
    IN  IF k = 0
        THEN UNCHANGED << windows, order, dragging, drag_x, drag_y >>
        ELSE LET eff == HitEffect(windows[order[k]], k, a, b, c)
             IN  /\ windows' = [windows EXCEPT ![order[k]] = eff.win]
                 /\ dragging' = eff.drag
                 /\ drag_x' = IF eff.drag THEN a ELSE drag_x
                 /\ drag_y' = IF eff.drag THEN b ELSE drag_y
                 /\ order' = Promote(order, eff.focus)

HandleMouse(a, b, c) ==
    /\ pc = "events" /\ ~panicked /\ n_input < MaxInput
    /\ cursor_x' = a /\ cursor_y' = b
    /\ redraw' = TRUE
    /\ IF dragging
       THEN DragStep(a, b, c) /\ order' = order
       ELSE ScanStep(a, b, c)
    /\ n_input' = n_input + 1
    /\ quiet' = FALSE
    /\ recency' =
         IF ~dragging /\ c > 0 /\ TopmostUnder(order, windows, a, b) # 0
         THEN PushFront(Retain(recency, TopmostUnder(order, windows, a, b)),
                        TopmostUnder(order, windows, a, b))
         ELSE recency
    /\ scn' = [lit |-> ScnMouse(scn.lit, a, b, c), lead |-> ScnMouse(scn.lead, a, b, c)]
    /\ grabbed' = IF ~dragging' THEN 0
                  ELSE IF ~dragging THEN TopmostUnder(order, windows, a, b)
                  ELSE grabbed
    /\ UNCHANGED << display, next_id, next_x, next_y, pc, panicked, last,
                    frame, openHist, live, paths, composed >>

\* an event of any other code: neither branch is taken
HandleOther ==
    /\ pc = "events" /\ ~panicked
    /\ quiet' = FALSE
    /\ scn' = ScnOff
    /\ UNCHANGED << display, inputVars, grabbed, schemeVars, redraw, pc, panicked,
                    n_input, last, frame, openHist, live, paths, recency, composed >>

\* display.events() is exhausted: let mut packet = Packet::default() (139)
EndEvents ==
    /\ pc = "events" /\ ~panicked
    /\ pc' = "packets"
    /\ UNCHANGED << display, inputVars, grabbed, schemeVars, redraw, panicked, last,
                    frame, n_input, openHist, live, paths, recency, quiet, composed,
                    scn >>

(***************************************************************************)
(* Phase B: one full packet read from the socket, dispatched by handle()   *)
(* and answered (main.rs 139-143); the scheme operations (166-236).        *)
(***************************************************************************)
\* Auto-placement as soon as one requested coordinate is negative.
PlacementEither(x, y) ==
    IF x < 0 \/ y < 0
    THEN [ x |-> next_x, y |-> next_y, auto |-> TRUE,
           nx |-> Advance(next_x, display.width),
           ny |-> Advance(next_y, display.height) ]
    ELSE [ x |-> x, y |-> y, auto |-> FALSE, nx |-> next_x, ny |-> next_y ]

\* The position open gives the window, and the counters afterwards (188-200)
Placement(x, y) ==
    IF x < 0 /\ y < 0
    THEN [ x |-> next_x, y |-> next_y, auto |-> TRUE,
           nx |-> Advance(next_x, display.width),
           ny |-> Advance(next_y, display.height) ]
    ELSE [ x |-> x, y |-> y, auto |-> FALSE, nx |-> next_x, ny |-> next_y ]

\* Mutant of OpenOrder: the new window goes to the back.
OpenOrderBack(ord, id) == Append(ord, id)

\* self.order.push_front(id) (202)
OpenOrder(ord, id) == PushFront(ord, id)

Open(path) ==
    /\ pc = "packets" /\ ~panicked /\ n_open < MaxOpens
    /\ \E panic \in (IF next_id = ISIZE_MAX THEN BOOLEAN ELSE {FALSE}) :
         IF panic
         THEN \* `self.next_id += 1` overflows in a build with overflow checks
              /\ panicked' = TRUE
              /\ UNCHANGED << display, inputVars, grabbed, schemeVars, redraw, pc, last,
                              frame, n_input, openHist, live, paths, recency, quiet,
                              composed, scn >>
         ELSE LET args == OpenArgs(path)
                  id   == next_id
                  pl   == Placement(args.x, args.y)
              IN  /\ next_id' = NextId(next_id)
                  /\ next_x' = pl.nx /\ next_y' = pl.ny
                  /\ order' = OpenOrder(order, id)
                  /\ windows' = MapInsert(windows, id,
                                   WindowNew(pl.x, pl.y, args.width,
                                             args.height, args.title))
                  /\ redraw' = TRUE
                  /\ last' = Ok("open", 0, id)
                  /\ n_open' = n_open + 1
                  /\ returned' = Append(returned, id)
                  /\ placed' = IF pl.auto
                                THEN Append(placed, << pl.x, pl.y >>)
                                ELSE placed
                  /\ live' = live \cup {id}
                  /\ paths' = MapInsert(paths, id, path)
                  /\ recency' = PushFront(Retain(recency, id), id)
                  /\ quiet' = FALSE
                  /\ scn' = [lit  |-> ScnOpen(scn.lit, P_lit, path),
                             lead |-> ScnOpen(scn.lead, P_lead, path)]
                  /\ UNCHANGED << display, inputVars, grabbed, pc, panicked, frame,
                                  n_input, n_write, composed >>

Read(id, cap) ==
    /\ pc = "packets" /\ ~panicked
    /\ IF id \in DOMAIN windows
       THEN /\ windows' = [windows EXCEPT ![id] = WindowRead(@, cap)]
            /\ last' = Ok("read", id, WindowReadCount(windows[id], cap))
       ELSE /\ windows' = windows
            /\ last' = Err("read", id, "EBADF")
    /\ scn' = ScnOff
    /\ UNCHANGED << display, inputVars, grabbed, next_id, next_x, next_y, order, redraw,
                    pc, panicked, frame, n_input, openHist, live, paths, recency,
                    quiet, composed >>

Write(id, buf) ==
    /\ pc = "packets" /\ ~panicked
    /\ id \in DOMAIN windows => n_write < MaxWrites
    /\ IF id \in DOMAIN windows
       THEN /\ redraw' = TRUE
            /\ windows' = [windows EXCEPT ![id] = WindowWrite(@, buf)]
            /\ last' = Ok("write", id, WindowWriteCount(windows[id], buf))
            /\ n_write' = n_write + 1
       ELSE /\ UNCHANGED << redraw, windows, n_write >>
            /\ last' = Err("write", id, "EBADF")
    /\ quiet' = FALSE
    /\ scn' = ScnOff
    /\ UNCHANGED << display, inputVars, grabbed, next_id, next_x, next_y, order, pc,
                    panicked, frame, n_input, n_open, returned, placed, live,
                    paths, recency, composed >>

\* Mutant of CloseWindows: the window stays in the map.
CloseWindowsKeeps(wins, id) == wins

\* self.windows.remove(&id) (229)
CloseWindows(wins, id) == MapRemove(wins, id)

\* close taking the front handle out of order along with id.
CloseOrderDropsFront(ord, id) ==
    SelectSeq(ord, LAMBDA e : e # id /\ e # ord[1])

\* self.order.retain(|&e| e != id) (227)
CloseOrder(ord, id) == Retain(ord, id)

Close(id) ==
    /\ pc = "packets" /\ ~panicked
    /\ order' = CloseOrder(order, id)
    /\ IF id \in DOMAIN windows
       THEN /\ windows' = CloseWindows(windows, id)
            /\ redraw' = TRUE
            /\ last' = Ok("close", id, 0)
       ELSE /\ UNCHANGED << windows, redraw >>
            /\ last' = Err("close", id, "EBADF")
    /\ live' = live \ {id}
    /\ paths' = MapRemove(paths, id)
    /\ recency' = Retain(recency, id)
    /\ quiet' = FALSE
    /\ scn' = ScnOff
    /\ UNCHANGED << display, inputVars, grabbed, next_id, next_x, next_y, pc, panicked,
                    frame, n_input, openHist, composed >>

\* socket.read returns fewer bytes than a packet, which leaves no response
\* in the packet: on to Phase C (140, 145)
EndPackets ==
    /\ pc = "packets" /\ ~panicked
    /\ pc' = "composite"
    /\ last' = NoRequest
    /\ UNCHANGED << display, inputVars, grabbed, schemeVars, redraw, panicked,
                    frame, n_input, openHist, live, paths, recency, quiet, composed,
                    scn >>

(***************************************************************************)
(* Phase C (main.rs 145-159) and the yield (161).                          *)
(***************************************************************************)
\* Mutant of ClearRedraw: the flag is left as it was.
KeepRedraw(r) == r

\* self.redraw = false (146)
ClearRedraw(r) == FALSE

Composite ==
    /\ pc = "composite" /\ ~panicked
    /\ IF redraw
       THEN /\ redraw' = ClearRedraw(redraw)
            /\ frame' = FrameCalls(order, windows)
       ELSE /\ redraw' = redraw
            /\ frame' = << >>
    /\ pc' = "yield"
    /\ quiet' = TRUE
    /\ composed' = TRUE
    /\ UNCHANGED << display, inputVars, grabbed, schemeVars, panicked, last, n_input,
                    openHist, live, paths, recency, scn >>

\* thread::yield_now(), then the top of the loop
Yield ==
    /\ pc = "yield" /\ ~panicked
    /\ pc' = "events"
    /\ frame' = << >>
    /\ UNCHANGED << display, inputVars, grabbed, schemeVars, redraw, panicked, last,
                    n_input, openHist, live, paths, recency, quiet, composed, scn >>

Next ==
    \/ \E ch \in Keys : HandleKey(ch)
    \/ \E p \in Points, c \in Buttons : HandleMouse(p[1], p[2], c)
    \/ HandleOther
    \/ EndEvents
    \/ \E path \in Paths : Open(path)
    \/ \E id \in HandleArgs, cap \in ReadCaps : Read(id, cap)
    \/ \E id \in HandleArgs, buf \in WriteBufs : Write(id, buf)
    \/ \E id \in HandleArgs : Close(id)
    \/ EndPackets
    \/ Composite
    \/ Yield

Spec == Init /\ [][Next]_vars

(***************************************************************************)
(* The handle counter next to its overflow.  isize::MAX opens cannot be    *)
(* enumerated, so this specification starts from a state the loop reaches  *)
(* after them: the first client opened "/-1/-1/100/50/Test" (handle 1) and *)
(* kept it, every later window was opened at an explicit position and      *)
(* closed again, no input arrived, and the loop is back at its top after a *)
(* Phase C.  The history variables count from this state on.               *)
(***************************************************************************)
InitWrap ==
    /\ display \in Displays
    /\ cursor_x = 0 /\ cursor_y = 0
    /\ dragging = FALSE /\ drag_x = 0 /\ drag_y = 0
    /\ next_id = ISIZE_MAX
    /\ next_x = Advance(FIRST_POS, display.width)
    /\ next_y = Advance(FIRST_POS, display.height)
    /\ order = << FIRST_ID >>
    /\ windows = MapInsert(<< >>, FIRST_ID,
                           WindowNew(FIRST_POS, FIRST_POS, 100, 50,
                                     << "T", "e", "s", "t" >>))
    /\ redraw = FALSE
    /\ pc = "events"
    /\ panicked = FALSE
    /\ last = NoRequest
    /\ frame = << >>
    /\ n_open = 0 /\ n_input = 0 /\ n_write = 0
    /\ returned = << >>
    /\ live = { FIRST_ID }
    /\ paths = MapInsert(<< >>, FIRST_ID, P_lead)
    /\ recency = << FIRST_ID >>
    /\ placed = << >>
    /\ quiet = TRUE
    /\ composed = TRUE
    /\ scn = ScnOff
    /\ grabbed = 0

\* The same operations over fewer inputs: the state already holds a window.
PathsWrap == { P_lead, P_mix }
PointsWrap == { << 25, 25 >>, << 45, 45 >> }

NextWrap ==
    \/ \E ch \in Keys : HandleKey(ch)
    \/ \E p \in PointsWrap : HandleMouse(p[1], p[2], 1)
    \/ HandleOther
    \/ EndEvents
    \/ \E path \in PathsWrap : Open(path)
    \/ \E id \in HandleArgs, cap \in ReadCaps : Read(id, cap)
    \/ \E id \in HandleArgs, buf \in WriteBufs : Write(id, buf)
    \/ \E id \in HandleArgs : Close(id)
    \/ EndPackets
    \/ Composite
    \/ Yield

SpecWrap == InitWrap /\ [][NextWrap]_vars

(***************************************************************************)
(* Three stacked windows.  MaxOpens keeps Spec to two windows; this        *)
(* specification starts from the state the loop reaches on the 800x600     *)
(* display after three opens of "/-1/-1/100/50/Test" and a Phase C, and    *)
(* serves input events, reads and closes from there (no further open).     *)
(***************************************************************************)
StackSize == 3

InitStack ==
    /\ display = [width |-> 800, height |-> 600]
    /\ cursor_x = 0 /\ cursor_y = 0
    /\ dragging = FALSE /\ drag_x = 0 /\ drag_y = 0
    /\ next_id = FIRST_ID + StackSize
    /\ next_x = FIRST_POS + StackSize * STEP
    /\ next_y = FIRST_POS + StackSize * STEP
    /\ order = [ k \in 1..StackSize |-> StackSize + 1 - k ]
    /\ windows = [ h \in 1..StackSize |->
                     WindowNew(h * STEP, h * STEP, 100, 50,
                               << "T", "e", "s", "t" >>) ]
    /\ redraw = FALSE
    /\ pc = "events"
    /\ panicked = FALSE
    /\ last = NoRequest
    /\ frame = << >>
    /\ n_open = StackSize /\ n_input = 0 /\ n_write = 0
    /\ returned = [ k \in 1..StackSize |-> k ]
    /\ live = 1..StackSize
    /\ paths = [ h \in 1..StackSize |-> P_lead ]
    /\ recency = [ k \in 1..StackSize |-> StackSize + 1 - k ]
    /\ placed = [ k \in 1..StackSize |-> << k * STEP, k * STEP >> ]
    /\ quiet = TRUE
    /\ composed = TRUE
    /\ scn = ScnOff
    /\ grabbed = 0

\* Pointer positions: inside window 1 only, inside 1 and 2, inside all
\* three, and on the title bar of window 2 over the content of window 1.
PointsStack == { << 25, 25 >>, << 45, 45 >>, << 65, 65 >>, << 45, 30 >> }
HandlesStack == 1..StackSize

NextStack ==
    \/ \E ch \in Keys : HandleKey(ch)
    \/ \E p \in PointsStack, c \in Buttons : HandleMouse(p[1], p[2], c)
    \/ EndEvents
    \/ \E id \in HandlesStack, cap \in ReadCaps : Read(id, cap)
    \/ \E id \in HandlesStack : Close(id)
    \/ EndPackets
    \/ Composite
    \/ Yield

SpecStack == InitStack /\ [][NextStack]_vars

\* The handles in a z-order
Handles(ord) == { ord[k] : k \in 1..Len(ord) }
NoDuplicates(ord) == \A i, j \in 1..Len(ord) : i # j => ord[i] # ord[j]

(***************************************************************************)
(* C1.  In every reachable state, order holds exactly the handles that are *)
(* keys of windows, each exactly once.  (Checked under SpecWrap, where the *)
(* counter wraps to a handle that is still open.)                          *)
(***************************************************************************)
C1_OrderMatchesWindows ==
    /\ Handles(order) = DOMAIN windows
    /\ NoDuplicates(order)

(***************************************************************************)
(* C2.  read, write and close on a handle that open never returned, or     *)
(* that has been closed since, answer EBADF; on an open handle read and    *)
(* write succeed and close succeeds with 0; open succeeds with a handle    *)
(* for every path.  `live` is the set of handles returned by open and not  *)
(* closed since, kept beside the program's own map.                        *)
(***************************************************************************)
C2_Response(r, lv) ==
    /\ r.op \in {"read", "write", "close"} =>
          /\ r.ok <=> r.id \in lv
          /\ ~r.ok => r.err = "EBADF"
          /\ r.ok /\ r.op = "close" => r.val = 0
          /\ r.ok => r.val >= 0
    /\ r.op = "open" => r.ok /\ r.val > 0

C2_BadHandle ==
    [][ (pc = "packets" /\ pc' = "packets" /\ ~panicked') =>
            C2_Response(last', live) ]_vars

\* a second close of handle 1 was refused while the window opened with the
\* empty path is still open
C2_Witness ==
    /\ last = Err("close", 1, "EBADF")
    /\ Len(returned) = 2 /\ returned[1] = 1
    /\ live = {2} /\ paths[2] = P_empty

(***************************************************************************)
(* C3.  While the counter does not overflow, the handles open returns are  *)
(* strictly increasing in call order and start at 1 (so they are pairwise  *)
(* distinct and a closed handle is not returned again).                    *)
(***************************************************************************)
C3_HandlesIncrease ==
    /\ returned # << >> => returned[1] = 1
    /\ \A i, j \in 1..Len(returned) : i < j => returned[i] < returned[j]

\* two opens with a close of the first handle and an input event around them
C3_Witness ==
    /\ Len(returned) >= 2
    /\ returned[1] \notin live
    /\ n_input > 0

(***************************************************************************)
(* C4.  Whenever a window is open, order.front() is the open window that   *)
(* was most recently created by open or clicked with the button pressed.   *)
(* A click on a window is a button-press pointer event handled by the      *)
(* hit-test scan (no drag in progress) with that window topmost under the  *)
(* pointer; `recency` lists the open windows by their latest creation or   *)
(* click.                                                                  *)
(***************************************************************************)
C4_FrontIsMostRecent ==
    DOMAIN windows # {} =>
        /\ order # << >>
        /\ recency # << >>
        /\ Head(order) = Head(recency)

\* the older of two open windows is in front because it was clicked
C4_Witness ==
    /\ DOMAIN windows = {1, 2}
    /\ order = << 1, 2 >>
    /\ n_input > 0

(***************************************************************************)
(* C5.  A pointer event handled while not dragging changes the queue of at *)
(* most one window, the first one in order whose content or title bar      *)
(* holds the pointer; if its content holds the pointer it gets exactly the *)
(* event, in its own coordinates, and on a title-bar hit at most one event *)
(* is queued; no window behind it receives anything.                       *)
(***************************************************************************)
C5_Delivery(a, b, c) ==
    LET t == TopmostUnder(order, windows, a, b)
    IN  /\ \A h \in DOMAIN windows :
              h # t => windows'[h].events = windows[h].events
        /\ t # 0 /\ Contains(windows[t], a, b) =>
              windows'[t].events =
                  Append(windows[t].events,
                         MouseEvent(a - windows[t].x, b - windows[t].y, c))
        /\ t # 0 /\ ~Contains(windows[t], a, b) =>
              \/ windows'[t].events = windows[t].events
              \/ windows'[t].events = Append(windows[t].events, QuitEventToEvent)

C5_OnlyTopmostReceives ==
    [][ \A p \in Points, c \in Buttons :
            (~dragging /\ HandleMouse(p[1], p[2], c)) =>
                C5_Delivery(p[1], p[2], c) ]_vars

\* a click in the overlap of two windows reached the front one only
C5_Witness ==
    /\ Len(order) = 2
    /\ Contains(windows[order[1]], cursor_x, cursor_y)
    /\ Contains(windows[order[2]], cursor_x, cursor_y)
    /\ Len(windows[order[1]].events) = 1
    /\ windows[order[1]].events[1].code = EVENT_MOUSE
    /\ windows[order[1]].events[1].c > 0
    /\ windows[order[2]].events = << >>
    /\ n_input = 1

(***************************************************************************)
(* C6.  An iteration that follows a completed Phase C with no input event, *)
(* no write and no open or close in between makes no display call in its   *)
(* own Phase C: no fill, no draw, no blend, no flip.                       *)
(***************************************************************************)
C6_IdleIterationDrawsNothing ==
    [][ (pc = "composite" /\ quiet /\ composed) => frame' = << >> ]_vars

\* Phase C is about to run for an idle iteration with a window open
C6_Witness ==
    /\ pc = "composite" /\ quiet /\ composed
    /\ DOMAIN windows # {}

(***************************************************************************)
(* C7.  Auto-placed windows (x = -1, y = -1 requested) get the current     *)
(* (next_x, next_y): the first one (20,20), each later one 20 further in x *)
(* and in y than the one before, except that a coordinate whose next value *)
(* plus 20 would reach the display's width, respectively height, restarts  *)
(* at 20.                                                                  *)
(***************************************************************************)
C7_Follows(prev, limit) == IF prev + 20 + 20 >= limit THEN 20 ELSE prev + 20

C7_Cascade ==
    /\ placed # << >> => placed[1] = << 20, 20 >>
    /\ \A i \in 1..(Len(placed) - 1) :
          /\ placed[i + 1][1] = C7_Follows(placed[i][1], display.width)
          /\ placed[i + 1][2] = C7_Follows(placed[i][2], display.height)
    /\ (last.op = "open" /\ paths[last.val] = P_lead) =>
          << windows[last.val].x, windows[last.val].y >> = placed[Len(placed)]

\* on the 80x60 display the second auto-placed window stepped in x while its
\* y restarted
C7_Witness ==
    /\ Len(placed) >= 2
    /\ placed[2] = << 40, 20 >>
    /\ last.op = "open" /\ paths[last.val] = P_lead

(***************************************************************************)
(* C8.  The scenario on a fresh compositor with an 800x600 display: two    *)
(* opens of the same path, a button-down at (45,45), a button-down at      *)
(* (25,25).  n is the number of scenario steps served so far, nothing else *)
(* having been served.                                                     *)
(***************************************************************************)
C8_Test == << "T", "e", "s", "t" >>

C8_Scenario(n) ==
    /\ n >= 1 =>
          /\ returned[1] = 1
          /\ 1 \in DOMAIN windows
          /\ windows[1].x = 20 /\ windows[1].y = 20
          /\ windows[1].width = 100 /\ windows[1].height = 50
          /\ windows[1].title = C8_Test
    /\ n = 1 => order = << 1 >>
    /\ n >= 2 =>
          /\ returned[2] = 2
          /\ 2 \in DOMAIN windows
          /\ windows[2].x = 40 /\ windows[2].y = 40
          /\ windows[2].width = 100 /\ windows[2].height = 50
          /\ windows[2].title = C8_Test
    /\ n = 2 => order = << 2, 1 >>
    /\ n = 3 =>
          /\ windows[2].events = << MouseEvent(5, 5, 1) >>
          /\ windows[1].events = << >>
          /\ order = << 2, 1 >>
    /\ n = 4 =>
          /\ windows[2].events = << MouseEvent(5, 5, 1) >>
          /\ windows[1].events = << MouseEvent(5, 5, 1) >>
          /\ order = << 1, 2 >>

C9_FreshPositiveHandle ==
    [][ (n_open' = n_open + 1) =>
            /\ last'.val > 0
            /\ next_id = ISIZE_MAX => next_id' = 1
            /\ last'.val \notin DOMAIN windows ]_vars

(***************************************************************************)
(* C10.  The fields of open's path.  As stated: the first field is x, then *)
(* y, width, height, and the rest rejoined with '/' is the title.          *)
(* Amended: the first field is skipped, and the second to fifth fields are *)
(* x, y, width, height.  In both, a field that is missing or no integer    *)
(* gives 0 and a missing title is empty.  The expected values are written  *)
(* out for each path of Paths.                                             *)
(***************************************************************************)
C10_Fields(x, y, width, height, title) ==
    [x |-> x, y |-> y, width |-> width, height |-> height, title |-> title]

\* the first field is x
C10_ExpectedFromFirst(path) ==
    CASE path = P_lit   -> C10_Fields(-1, -1, 100, 50, C8_Test)
      [] path = P_lead  -> C10_Fields(0, -1, -1, 100, << "5", "0", "/" >> \o C8_Test)
      [] path = P_empty -> C10_Fields(0, 0, 0, 0, << >>)
      [] path = P_mix   -> C10_Fields(0, 0, -5, 60, << "4", "0", "/", "a", "/", "b" >>)

\* the first field is skipped
C10_ExpectedFromSecond(path) ==
    CASE path = P_lit   -> C10_Fields(-1, 100, 50, 0, << >>)
      [] path = P_lead  -> C10_Fields(-1, -1, 100, 50, C8_Test)
      [] path = P_empty -> C10_Fields(0, 0, 0, 0, << >>)
      [] path = P_mix   -> C10_Fields(0, -5, 60, 40, << "a", "/", "b" >>)

\* Every open window has the width, height and title expected for its path,
\* and the window just opened is at the expected (x, y) unless both are
\* negative (auto-placement).
C10_WindowsMatch(Expected(_)) ==
    /\ \A h \in DOMAIN windows :
          /\ windows[h].width = Expected(paths[h]).width
          /\ windows[h].height = Expected(paths[h]).height
          /\ windows[h].title = Expected(paths[h]).title
    /\ last.op = "open" =>
          LET e == Expected(paths[last.val])
          IN  ~(e.x < 0 /\ e.y < 0) =>
                  windows[last.val].x = e.x /\ windows[last.val].y = e.y

C11_Operations == { "open", "read", "write", "close" }

\* the effect of one dispatch of the operation the response r answers
C11_DispatchedOnce(r) ==
    /\ r.op = "open" =>
          /\ r.ok /\ r.val = next_id
          /\ next_id' = next_id + 1
          /\ n_open' = n_open + 1
          /\ Len(order') = Len(order) + 1
          /\ DOMAIN windows' = DOMAIN windows \cup { r.val }
    /\ r.op = "read" /\ r.ok =>
          /\ Len(windows'[r.id].events) = Len(windows[r.id].events) - r.val
          /\ UNCHANGED << next_id, order, n_open, n_write >>
    /\ r.op = "write" /\ r.ok =>
          /\ n_write' = n_write + 1
          /\ UNCHANGED << next_id, order, n_open >>
    /\ r.op = "close" /\ r.ok =>
          /\ r.id \in DOMAIN windows
          /\ DOMAIN windows' = DOMAIN windows \ { r.id }
          /\ UNCHANGED << next_id, n_open, n_write >>
    /\ ~r.ok => UNCHANGED << schemeVars, n_open, n_write >>

C11_ShortRead ==
    /\ pc' = "composite"
    /\ last' = NoRequest
    /\ UNCHANGED << schemeVars, inputVars, redraw, n_open, n_write >>

C11_PhaseB ==
    [][ pc = "packets" =>
            \/ /\ pc' = "packets"
               /\ last'.op \in C11_Operations
               /\ C11_DispatchedOnce(last')
            \/ C11_ShortRead ]_vars

\* in a later iteration, a read answered with the one event queued for
\* window 1, Phase B still going on
C11_Witness ==
    /\ pc = "packets" /\ composed
    /\ last = Ok("read", 1, 1)
    /\ windows[1].events = << >>

(***************************************************************************)
(* C12.  The redraw flag is set by every pointer event, open, successful   *)
(* write and successful close; once set it stays set until Phase C, which  *)
(* then makes a full composite (fill .. present) and clears it before the  *)
(* yield.  So redraw is false at every yield point, and until the first    *)
(* Phase C has run redraw is set: the first iteration composites.          *)
(***************************************************************************)
C12_FullComposite(f) ==
    /\ Len(f) >= 3
    /\ f[1].call = "set"
    /\ f[Len(f) - 1].call = "blend"
    /\ f[Len(f)].call = "flip"
    /\ \A k \in 2..(Len(f) - 2) : f[k].call = "draw"

C12_Sets ==
    /\ (\E p \in Points, c \in Buttons : HandleMouse(p[1], p[2], c)) => redraw'
    /\ (pc = "packets" /\ pc' = "packets" /\ last'.ok
           /\ last'.op \in {"open", "write", "close"}) => redraw'

C12_RedrawServed ==
    /\ [](pc = "yield" => ~redraw)
    /\ [](~composed => redraw)
    /\ [][ C12_Sets ]_vars
    /\ [][ (redraw /\ pc # "composite") => redraw' ]_vars
    /\ [][ (redraw /\ pc = "composite") =>
               (pc' = "yield" /\ ~redraw' /\ C12_FullComposite(frame')) ]_vars

\* after an earlier Phase C, the flag was set again by a write in this
\* iteration and Phase C is about to run
C12_Witness ==
    /\ pc = "composite" /\ composed /\ redraw /\ ~quiet
    /\ n_write = 1 /\ n_input = 0

(***************************************************************************)
(* C13.  A keyboard event is appended to the event queue of the window at  *)
(* order.front() and of no other window; with no window open it is         *)
(* dropped.  It changes nothing else: no window's geometry, title or       *)
(* content, nor order, the cursor, the drag state, the redraw flag or the  *)
(* counters.                                                               *)
(***************************************************************************)
C13_Delivered(ch) ==
    /\ DOMAIN windows' = DOMAIN windows
    /\ \A h \in DOMAIN windows :
          /\ windows'[h].events =
                IF order # << >> /\ h = order[1]
                THEN windows[h].events \o << KeyEvent(ch) >>
                ELSE windows[h].events
          /\ << windows'[h].x, windows'[h].y, windows'[h].width,
                windows'[h].height, windows'[h].title, windows'[h].data >>
             = << windows[h].x, windows[h].y, windows[h].width,
                  windows[h].height, windows[h].title, windows[h].data >>
    /\ UNCHANGED << order, cursor_x, cursor_y, dragging, drag_x, drag_y,
                    redraw, next_id, next_x, next_y >>

C13_KeyToFront ==
    [][ \A ch \in Keys : HandleKey(ch) => C13_Delivered(ch) ]_vars

\* after two input events the front one of two windows holds one key event
\* and the other window none
C13_Witness ==
    /\ Len(order) = 2
    /\ windows[order[1]].events = << KeyEvent(65) >>
    /\ windows[order[2]].events = << >>
    /\ n_input = 2

(***************************************************************************)
(* C14.  While dragging, a pointer event with the button held and a window *)
(* open moves the window at order.front() by (new cursor - anchor) and     *)
(* sets the anchor to the new cursor, so that window keeps its offset from *)
(* the cursor; with the button released, or with no window open, it clears *)
(* dragging and moves no window.  In both cases no window's queue grows    *)
(* and order is unchanged.  The anchor of a drag is the cursor.            *)
(***************************************************************************)
C14_Position(w) == << w.x, w.y >>

C14_DragEvent(a, b, c) ==
    /\ order' = order
    /\ DOMAIN windows' = DOMAIN windows
    /\ \A h \in DOMAIN windows : windows'[h].events = windows[h].events
    /\ IF c > 0 /\ DOMAIN windows # { }
       THEN /\ dragging'
            /\ drag_x' = a /\ drag_y' = b
            /\ \A h \in DOMAIN windows :
                  C14_Position(windows'[h]) =
                      IF h = order[1]
                      THEN << windows[h].x + (a - drag_x),
                              windows[h].y + (b - drag_y) >>
                      ELSE C14_Position(windows[h])
            /\ windows'[order[1]].x - cursor_x' = windows[order[1]].x - cursor_x
            /\ windows'[order[1]].y - cursor_y' = windows[order[1]].y - cursor_y
       ELSE /\ ~dragging'
            /\ \A h \in DOMAIN windows :
                  C14_Position(windows'[h]) = C14_Position(windows[h])

C14_Drag ==
    /\ [](dragging => (drag_x = cursor_x /\ drag_y = cursor_y))
    /\ [][ \A p \in Points, c \in Buttons :
               (dragging /\ HandleMouse(p[1], p[2], c)) =>
                   C14_DragEvent(p[1], p[2], c) ]_vars

\* the second cascaded window, grabbed at (45,30), has followed the cursor
\* to (25,25)
C14_Witness ==
    /\ dragging /\ grabbed = 2
    /\ order = << 2, 1 >>
    /\ cursor_x = 25 /\ cursor_y = 25
    /\ windows[2].x = 20 /\ windows[2].y = 35

(***************************************************************************)
(* C15.  dragging turns true only in the handling of a pointer event with  *)
(* the button pressed whose first hit, scanning order from the front, is a *)
(* title bar outside the exit sub-region; the anchor is then the cursor.   *)
(* When the first hit is a title bar and no drag is in progress: a press   *)
(* on the exit sub-region appends exactly one quit event to that window's  *)
(* queue and dragging stays false; with no button pressed nothing is       *)
(* queued and dragging stays false.                                        *)
(***************************************************************************)
C15_OnTitle(t, a, b) ==
    /\ t # 0
    /\ ~Contains(windows[t], a, b)
    /\ TitleContains(windows[t], a, b)

C15_TitleEvent(a, b, c) ==
    LET t == TopmostUnder(order, windows, a, b)
    IN  /\ dragging' =>
              /\ c > 0
              /\ C15_OnTitle(t, a, b) /\ ~ExitContains(windows[t], a, b)
              /\ drag_x' = cursor_x' /\ drag_y' = cursor_y'
              /\ cursor_x' = a /\ cursor_y' = b
        /\ (C15_OnTitle(t, a, b) /\ c > 0 /\ ExitContains(windows[t], a, b)) =>
              /\ windows'[t].events = windows[t].events \o << QuitEventToEvent >>
              /\ ~dragging'
        /\ (C15_OnTitle(t, a, b) /\ c > 0 /\ ~ExitContains(windows[t], a, b)) =>
              /\ dragging'
              /\ windows'[t].events = windows[t].events
        /\ (C15_OnTitle(t, a, b) /\ c = 0) =>
              /\ \A h \in DOMAIN windows : windows'[h].events = windows[h].events
              /\ ~dragging'

C15_DragStart ==
    /\ [][ (~dragging /\ dragging') =>
               \E p \in Points, c \in Buttons : HandleMouse(p[1], p[2], c) ]_vars
    /\ [][ \A p \in Points, c \in Buttons :
               (~dragging /\ HandleMouse(p[1], p[2], c)) =>
                   C15_TitleEvent(p[1], p[2], c) ]_vars

\* a press on the exit sub-region of window 2 queued a quit event, then a
\* press on its title bar at (45,30) started a drag
C15_Witness ==
    /\ dragging /\ grabbed = 2
    /\ drag_x = 45 /\ drag_y = 30
    /\ windows[2].events = << QuitEventToEvent >>
    /\ windows[1].events = << >>

(***************************************************************************)
(* C16.  The display calls of a Phase C that presents: the background      *)
(* fill, then one draw for every window of order from the back to the      *)
(* front, then the cursor blend, then the flip.  The window at             *)
(* order.front() is drawn last among the windows and is the only one drawn *)
(* with is_topmost = true.  (frame holds the calls of the Phase C that has *)
(* just ended; order is not touched between the calls.)                    *)
(***************************************************************************)
C16_FrameBackToFront ==
    (\E k \in 1..Len(frame) : frame[k].call = "flip") =>
        LET n == Len(order)
        IN  /\ Len(frame) = n + 3
            /\ frame[1].call = "set"
            /\ \A k \in 1..n :
                  /\ frame[1 + k].call = "draw"
                  /\ frame[1 + k].id = order[n + 1 - k]
                  /\ frame[1 + k].top <=> (k = n)
            /\ frame[n + 2].call = "blend"
            /\ frame[n + 3].call = "flip"

\* three windows were drawn after a click brought window 1 to the front
C16_Witness ==
    /\ pc = "yield"
    /\ order = << 1, 3, 2 >>
    /\ Len(frame) = 6
    /\ frame[4].id = 1 /\ frame[4].top

(***************************************************************************)
(* C20.  Handling one pointer event leaves the handles of order and of     *)
(* windows as they are; order changes only by the window hit with the      *)
(* button pressed, not yet at the front, moving to the front while the     *)
(* other handles keep their relative order, which is what happens on every *)
(* such hit outside a drag; with no button pressed, or no window hit,      *)
(* order is unchanged.                                                     *)
(***************************************************************************)
C20_MovedToFront(ord, h) == << h >> \o SelectSeq(ord, LAMBDA e : e # h)

C20_PointerEvent(a, b, c) ==
    LET t == TopmostUnder(order, windows, a, b)
    IN  /\ DOMAIN windows' = DOMAIN windows
        /\ Len(order') = Len(order)
        /\ Handles(order') = Handles(order)
        /\ (c = 0 \/ t = 0) => order' = order
        /\ order' # order =>
              /\ c > 0 /\ t # 0 /\ order[1] # t
              /\ order' = C20_MovedToFront(order, t)
        /\ (~dragging /\ c > 0 /\ t # 0) => order' = C20_MovedToFront(order, t)

C20_OrderFrame ==
    [][ \A p \in PointsStack, c \in Buttons :
            HandleMouse(p[1], p[2], c) => C20_PointerEvent(p[1], p[2], c) ]_vars

\* one press on window 1 at the back of three: it is in front and windows
\* 3 and 2 follow in their old order
C20_Witness ==
    /\ order = << 1, 3, 2 >>
    /\ n_input = 1
    /\ windows[1].events = << MouseEvent(5, 5, 1) >>

(***************************************************************************)
(* C17.  open auto-places only when the requested x and y are both         *)
(* negative: the window is then at (next_x, next_y) and both counters      *)
(* advance.  Otherwise the window is at exactly the requested (x, y), even *)
(* with the other coordinate negative, and next_x, next_y are unchanged.   *)
(* The requested values are those written out for each path under C10.     *)
(***************************************************************************)
C17_Opened(id, req) ==
    IF req.x < 0 /\ req.y < 0
    THEN /\ windows'[id].x = next_x /\ windows'[id].y = next_y
         /\ next_x' = C7_Follows(next_x, display.width)
         /\ next_y' = C7_Follows(next_y, display.height)
    ELSE /\ windows'[id].x = req.x /\ windows'[id].y = req.y
         /\ next_x' = next_x /\ next_y' = next_y

C17_AutoPlacementOnlyBothNegative ==
    [][ (n_open' = n_open + 1) =>
            C17_Opened(last'.val, C10_ExpectedFromSecond(paths'[last'.val])) ]_vars

\* after one auto-placed window, a window requested at x = -1, y = 100 is
\* at (-1,100) and the counters are where the first open left them
C17_Witness ==
    /\ last.op = "open" /\ paths[last.val] = P_lit
    /\ windows[last.val].x = -1 /\ windows[last.val].y = 100
    /\ placed = << << 20, 20 >> >>
    /\ next_x = 40

(***************************************************************************)
(* C18.  From the press on a title bar that starts a drag until dragging   *)
(* is cleared, a pointer event changes the position of no window but the   *)
(* one whose title bar was pressed (grabbed), whatever opens and closes    *)
(* are served in Phase B in between.                                       *)
(***************************************************************************)
C18_MovesOnlyGrabbed ==
    \A h \in DOMAIN windows :
        C14_Position(windows'[h]) # C14_Position(windows[h]) => h = grabbed

C18_DragStaysOnGrabbedWindow ==
    [][ \A p \in Points, c \in Buttons :
            (dragging /\ HandleMouse(p[1], p[2], c)) => C18_MovesOnlyGrabbed ]_vars

\* the same, for the drags whose grabbed window is still open
C18_DragStaysOnOpenGrabbedWindow ==
    [][ \A p \in Points, c \in Buttons :
            (dragging /\ grabbed \in DOMAIN windows /\ HandleMouse(p[1], p[2], c))
                => C18_MovesOnlyGrabbed ]_vars

(***************************************************************************)
(* C19.  A read, write or close answered with the bad-handle error leaves  *)
(* the compositor state as it was: windows (content and queues included),  *)
(* order, the handle and placement counters, the cursor and drag state,    *)
(* and the redraw flag.                                                    *)
(***************************************************************************)
C19_FailureChangesNothing ==
    [][ (pc = "packets" /\ pc' = "packets"
           /\ last'.op \in {"read", "write", "close"} /\ ~last'.ok) =>
            /\ last'.err = "EBADF"
            /\ UNCHANGED << windows, order, next_id, next_x, next_y, redraw,
                            cursor_x, cursor_y, dragging, drag_x, drag_y >> ]_vars

\* in an iteration without input, a close of handle 2 was refused while
\* window 1 is open, and the redraw flag is still clear
C19_Witness ==
    /\ pc = "packets" /\ composed
    /\ last = Err("close", 2, "EBADF")
    /\ order = << 1 >> /\ DOMAIN windows = {1}
    /\ ~redraw

=============================================================================
